---- MODULE Spec2Model ----
(***************************************************************************)
(* Juggler: a ConnectionManager that owns one NetcatListener per port,     *)
(* each listener owning an `nc -l -p <port>` process and two daemon        *)
(* capture threads, driven either by the interactive control loop of       *)
(* Juggler.py (Spec) or directly through the manager's methods (SpecMgr).  *)
(*                                                                         *)
(* A line of text is a record [sid, n, blank]: the n-th line written to a  *)
(* stream by the process of listener sid; blank marks a whitespace-only    *)
(* line ("\n"), the only lines str.strip() can remove as a whole (the      *)
(* whitespace strip() trims inside a line that has text is not modelled).  *)
(*                                                                         *)
(* A process is "none" (never spawned), "running", "exited" (it ended on   *)
(* its own) or "waited" (terminate() and wait() of stop()).  The data a    *)
(* process has written stays readable in its pipes after it has ended.     *)
(*                                                                         *)
(* The foreground thread is at pc: "idle" or "loop"/"input" between calls, *)
(* "sleep" and "drain" inside send_command and receive_data, "return" when *)
(* a call has produced its result (response, report, exc), which the       *)
(* caller takes before anything else happens, "finally" and "exited" at    *)
(* the end of the program.  A blocked write to a full stdin pipe is not    *)
(* modelled.  In SpecGet the test of empty() and the get() that follows it *)
(* are two steps, the foreground thread at "get" in between.               *)
(*                                                                         *)
(* A capture thread is "readline" (in its loop, inside the blocking read), *)
(* "done" (it has left the loop) or "none" (never created).  One step of a *)
(* thread is a read together with the put and the tests that follow it, so *)
(* a thread that meets the cleared flag at a test without a read pending   *)
(* is not shown apart: it ends earlier and enqueues nothing more.          *)
(*                                                                         *)
(* SpecListener is a caller of the NetcatListener methods themselves,      *)
(* SpecMgr a caller of the ConnectionManager methods, Spec the program.    *)
(***************************************************************************)
EXTENDS Integers, Sequences, FiniteSets, TLC

\* ------------------------------------------------------------------ bounds
MaxPort == 1        \* ports the operator types: 0..MaxPort
MaxListeners == 2   \* NetcatListener objects ever constructed
MaxLines == 2       \* lines all processes together write to stdout and stderr

Ports == 0..MaxPort

\* selected_port = None (Juggler.py:99)
None == -1

\* return value None of send_command (Juggler.py:134), distinct from any text
NoneResponse == <<[sid |-> 0, n |-> 0, blank |-> FALSE]>>

\* the two ways Popen can fail (Juggler.py:54-57) and success
SpawnOutcomes == {"ok", "FileNotFoundError", "Exception"}

VARIABLES
    connections,    \* ConnectionManager.connections: dict in insertion order,
                    \* a sequence of [port, sid]
    selected_port,  \* ConnectionManager.selected_port
    listeners,      \* the NetcatListener objects ever constructed, by sid
    procs,          \* the OS process and pipes behind each listener
    threads,        \* position of the two capture threads of each listener
    pc,             \* position of the foreground thread
    frame,          \* the call in progress: the listener receive_data()
                    \* drains, its local output, where the caller goes on,
                    \* and what the call has written to a process's stdin
    response,       \* value the call returns (send_command, receive_data)
    report,         \* diagnostic the call prints
    exc,            \* exception the call raises ("none" if none)
    cause,          \* how the control loop was left ("none" while it runs)
    hist            \* per listener: got, the number of the last line taken
                    \* from its stdout queue; nret, how many lines its
                    \* receive_data() calls have returned; fresh, whether the
                    \* stdout capture thread has enqueued since receive_data()
                    \* last returned

vars == <<connections, selected_port, listeners, procs, threads, pc, frame,
          response, report, exc, cause, hist>>

\* ------------------------------------------------------------ dict helpers
RECURSIVE SeqSum(_)
SeqSum(s) == IF s = <<>> THEN 0 ELSE Head(s) + SeqSum(Tail(s))

Keys(d) == {d[i].port : i \in 1..Len(d)}

HasKey(d, port) == port \in Keys(d)

\* d[port]
Lookup(d, port) == d[CHOOSE i \in 1..Len(d) : d[i].port = port].sid

\* del d[port]
DictDel(d, port) == SelectSeq(d, LAMBDA e : e.port # port)

\* d[port] = sid, for a key that may or may not be present
DictSet(d, port, sid) ==
    IF HasKey(d, port)
    THEN [i \in 1..Len(d) |-> IF d[i].port = port
                               THEN [port |-> port, sid |-> sid] ELSE d[i]]
    ELSE Append(d, [port |-> port, sid |-> sid])

\* ------------------------------------------------------------ str.strip()
IsBlank(line) == line.blank

RECURSIVE lstrip(_)
lstrip(s) == IF s # <<>> /\ IsBlank(Head(s)) THEN lstrip(Tail(s)) ELSE s

RECURSIVE rstrip(_)
rstrip(s) == IF s # <<>> /\ IsBlank(s[Len(s)])
             THEN rstrip(SubSeq(s, 1, Len(s) - 1)) ELSE s

strip(s) == rstrip(lstrip(s))

\* -------------------------------------------------------- NetcatListener
\* a constructor that hands the new listener the stdout queue of the listener
\* last constructed for the same port
NewListener_inheriting(port) ==
    LET old == {i \in 1..Len(listeners) : listeners[i].port = port} IN
    [port |-> port, process |-> "None", running |-> TRUE,
     stdout_queue |->
        IF old = {} THEN <<>>
        ELSE listeners[CHOOSE i \in old : \A j \in old : j <= i].stdout_queue,
     stderr_queue |-> <<>>]

\* NetcatListener.__init__
NewListener(port) ==
    [port |-> port, process |-> "None", running |-> TRUE,
     stdout_queue |-> <<>>, stderr_queue |-> <<>>]

NoProc == [state |-> "none", stdout |-> <<>>, stderr |-> <<>>,
           nout |-> 0, nerr |-> 0]

\* subprocess.Popen(['nc', '-l', '-p', port], stdin=PIPE, stdout=PIPE, ...)
Popen(outcome) ==
    IF outcome = "ok" THEN [NoProc EXCEPT !.state = "running"] ELSE NoProc

\* NetcatListener.start: the listener after start()
start(l, outcome) ==
    IF outcome = "ok" THEN [l EXCEPT !.process = "Popen"] ELSE l

\* the two threading.Thread(...).start() of NetcatListener.start
StartThreads(outcome) ==
    IF outcome = "ok" THEN [stdout |-> "readline", stderr |-> "readline"]
    ELSE [stdout |-> "none", stderr |-> "none"]

StartReport(port, outcome) ==
    CASE outcome = "ok" -> <<"Netcat listener started", port>>
      [] outcome = "FileNotFoundError" -> <<"Netcat (nc) is not installed", port>>
      [] OTHER -> <<"Error starting netcat", port>>

\* a stop() without its test of `if self.process`
stop_unconditional(l) == [l EXCEPT !.running = FALSE]

\* NetcatListener.stop: the listener after stop()
stop(l) ==
    IF l.process # "None" THEN [l EXCEPT !.running = FALSE] ELSE l

\* process.terminate(); process.wait()
TerminateAndWait(p) ==
    IF p.state \in {"running", "exited"} THEN [p EXCEPT !.state = "waited"]
    ELSE p

\* a stop() that neither terminates the process nor waits for it
StopProc_unawaited(l, p) == p

\* process.terminate() of stop(): Popen.send_signal polls first, and SIGTERM
\* is sent only to a process that has not ended
send_signal(l, p) == l.process # "None" /\ p.state = "running"

\* the process side of NetcatListener.stop
StopProc(l, p) == IF l.process # "None" THEN TerminateAndWait(p) ELSE p

StopReport(l) ==
    IF l.process # "None" THEN <<"Netcat listener stopped", l.port>>
    ELSE <<"Netcat listener is not running", l.port>>

\* a test that takes a queue holding one last item for empty
empty_but_one(q) == Len(q) <= 1

\* queue.Queue.empty()
empty(q) == Len(q) = 0

\* ---------------------------------------------------- ConnectionManager
\* ConnectionManager.list_connections: list(self.connections.keys())
list_connections == [i \in 1..Len(connections) |-> connections[i].port]

\* add_connection, lines 103-105: a listener is constructed, started and
\* registered, whatever start() did
Register(port) ==
    \E outcome \in SpawnOutcomes :
        /\ Len(listeners) < MaxListeners
        /\ listeners' = Append(listeners, start(NewListener(port), outcome))
        /\ procs' = Append(procs, Popen(outcome))
        /\ threads' = Append(threads, StartThreads(outcome))
        /\ hist' = Append(hist, [got |-> 0, nret |-> 0, fresh |-> FALSE])
        /\ connections' = DictSet(connections, port, Len(listeners) + 1)
        /\ report' = StartReport(port, outcome)
        /\ UNCHANGED selected_port

\* a report is printed and nothing else happens
Reports(message, port) ==
    /\ report' = <<message, port>>
    /\ UNCHANGED <<connections, selected_port, listeners, procs, threads, hist>>

\* add_connection without its test of `port not in self.connections`
add_connection_untested(port) == Register(port)

\* ConnectionManager.add_connection
add_connection(port) ==
    IF ~HasKey(connections, port)
    THEN Register(port)
    ELSE Reports("Connection already exists", port)

\* a removal that deletes the entry and leaves the listener as it is
Unregister_unstopped(port) ==
    /\ connections' = DictDel(connections, port)
    /\ report' = StopReport(listeners[Lookup(connections, port)])
    /\ UNCHANGED <<selected_port, listeners, procs, threads, hist>>

\* remove_connection, lines 111-112: the listener is stopped and its entry
\* deleted
Unregister(port) ==
    LET sid == Lookup(connections, port) IN
    /\ listeners' = [listeners EXCEPT ![sid] = stop(listeners[sid])]
    /\ procs' = [procs EXCEPT ![sid] = StopProc(listeners[sid], procs[sid])]
    /\ connections' = DictDel(connections, port)
    /\ report' = StopReport(listeners[sid])
    /\ UNCHANGED <<selected_port, threads, hist>>

\* remove_connection resetting the selection on every call
remove_connection_deselecting(port) ==
    IF HasKey(connections, port)
    THEN Unregister(port)
    ELSE /\ report' = <<"No connection to remove", port>>
         /\ selected_port' = None
         /\ UNCHANGED <<connections, listeners, procs, threads, hist>>

\* ConnectionManager.remove_connection
remove_connection(port) ==
    IF HasKey(connections, port)
    THEN Unregister(port)
    ELSE Reports("No connection to remove", port)

\* ConnectionManager.select_connection
select_connection(port) ==
    IF HasKey(connections, port)
    THEN /\ selected_port' = port
         /\ report' = <<"Selected connection", port>>
         /\ UNCHANGED <<connections, listeners, procs, threads, hist>>
    ELSE Reports("No connection on port", port)

\* stop_all raises exactly when the dict it iterates is not empty
stop_all_raises == Len(connections) > 0

\* ConnectionManager.stop_all: the for loop deletes from the dict it iterates,
\* so after the first remove_connection the iterator raises RuntimeError
\* ("dictionary changed size during iteration")
stop_all ==
    IF Len(connections) = 0
    THEN UNCHANGED <<connections, selected_port, listeners, procs,
                     threads, hist, report>>
    ELSE remove_connection(list_connections[1])

\* NetcatListener.send_data raises BrokenPipeError when the process it writes
\* to has exited (the read end of its stdin pipe is gone)
send_data_raises(sid) ==
    listeners[sid].process # "None" /\ procs[sid].state # "running"

\* NetcatListener.send_data: what stdin.write(data + '\n'); flush() writes to
\* the stdin of the process of listener sid
send_data(sid, data) ==
    IF listeners[sid].process # "None" THEN <<[sid |-> sid, data |-> data]>>
    ELSE <<>>

NoReport == <<"", None>>

NoCall == <<"", None>>

NoFrame == [call |-> NoCall, self |-> 0, output |-> <<>>, ret |-> "none",
            written |-> <<>>]

\* send_command, lines 128-129: send_data() on the listener, then
\* time.sleep(0.5); ret is where the caller continues after a return, err
\* where it continues after an exception
SendTo(sid, command, ret, err) ==
    IF send_data_raises(sid)
    THEN /\ exc' = "BrokenPipeError"
         /\ pc' = "return"
         /\ frame' = [NoFrame EXCEPT !.call = <<"send_command", None>>,
                                      !.ret = err]
         /\ UNCHANGED <<connections, selected_port, listeners, procs,
                        threads, hist, report, response>>
    ELSE /\ frame' = [call |-> <<"send_command", None>>, self |-> sid,
                      output |-> <<>>, ret |-> ret,
                      written |-> send_data(sid, command)]
         /\ pc' = "sleep"
         /\ exc' = "none"
         /\ UNCHANGED <<connections, selected_port, listeners, procs,
                        threads, hist, report, response>>

\* send_command, lines 133-134
NoConnectionSelected(ret) ==
    /\ report' = <<"No connection selected", None>>
    /\ response' = NoneResponse
    /\ pc' = "return"
    /\ frame' = [NoFrame EXCEPT !.call = <<"send_command", None>>,
                                 !.ret = ret]
    /\ exc' = "none"
    /\ UNCHANGED <<connections, selected_port, listeners, procs, threads, hist>>

\* send_command falling back on the first connection when none is selected
send_command_defaulting(command, ret, err) ==
    IF HasKey(connections, selected_port)
    THEN SendTo(Lookup(connections, selected_port), command, ret, err)
    ELSE IF connections # <<>>
         THEN SendTo(connections[1].sid, command, ret, err)
         ELSE NoConnectionSelected(ret)

\* ConnectionManager.send_command up to time.sleep(0.5)
send_command(command, ret, err) ==
    IF HasKey(connections, selected_port)
    THEN SendTo(Lookup(connections, selected_port), command, ret, err)
    ELSE NoConnectionSelected(ret)

\* ConnectionManager.send_command: time.sleep(0.5) is over, receive_data()
\* is called on connections[selected_port]
Sleep ==
    /\ pc = "sleep"
    /\ frame' = [frame EXCEPT !.output = <<>>]
    /\ pc' = "drain"
    /\ UNCHANGED <<connections, selected_port, listeners, procs, threads,
                   response, report, exc, cause, hist>>

\* a get() that takes the newest item of the queue instead of the oldest
receive_data_get_newest ==
    /\ pc = "drain"
    /\ ~empty(listeners[frame.self].stdout_queue)
    /\ LET q == listeners[frame.self].stdout_queue IN
       /\ frame' = [frame EXCEPT !.output = Append(@, q[Len(q)])]
       /\ listeners' = [listeners EXCEPT
                          ![frame.self].stdout_queue = SubSeq(q, 1, Len(q) - 1)]
       /\ hist' = [hist EXCEPT ![frame.self].got = q[Len(q)].n]
    /\ UNCHANGED <<connections, selected_port, procs, threads, pc, response,
                   report, exc, cause>>

\* NetcatListener.receive_data: one iteration of
\* while not self.stdout_queue.empty(): output += self.stdout_queue.get()
receive_data_get ==
    /\ pc = "drain"
    /\ ~empty(listeners[frame.self].stdout_queue)
    /\ frame' = [frame EXCEPT
                   !.output = Append(@, Head(listeners[frame.self].stdout_queue))]
    /\ listeners' = [listeners EXCEPT ![frame.self].stdout_queue = Tail(@)]
    /\ hist' = [hist EXCEPT ![frame.self].got =
                  Head(listeners[frame.self].stdout_queue).n]
    /\ UNCHANGED <<connections, selected_port, procs, threads, pc, response,
                   report, exc, cause>>

\* NetcatListener.receive_data: the loop ends, return output.strip()
receive_data_return ==
    /\ pc = "drain"
    /\ empty(listeners[frame.self].stdout_queue)
    /\ response' = strip(frame.output)
    /\ hist' = [hist EXCEPT ![frame.self].fresh = FALSE,
                             ![frame.self].nret = @ + Len(strip(frame.output))]
    /\ pc' = "return"
    /\ UNCHANGED frame
    /\ report' = IF frame.ret = "input" /\ strip(frame.output) # <<>>
                 THEN <<"Received from port", selected_port>> ELSE report
    /\ UNCHANGED <<connections, selected_port, listeners, procs, threads, exc,
                   cause>>

\* ------------------------------------------------------ capture threads
Pipe(p, stream) == IF stream = "stdout" THEN p.stdout ELSE p.stderr

\* process.stdout.closed / process.stderr.closed: no code path closes the
\* stream objects, so the attribute is False throughout
closed(sid, stream) == FALSE

\* process.poll() is not None
poll(p) == p.state # "running"

\* One turn of a capture loop, from the blocking readline() to the next
\* test of `while self.running`: readline() returns a line or, at end of
\* file, the empty string; a line is put on the queue; the thread leaves the
\* loop when poll() is not None and the stream is closed, or when running is
\* false.  A thread is created with running true, so it starts in readline().
\* AfterRead is the process once the line has been taken from its pipe.
AfterRead(sid, stream) ==
    IF Pipe(procs[sid], stream) = <<>> THEN procs[sid]
    ELSE IF stream = "stdout" THEN [procs[sid] EXCEPT !.stdout = Tail(@)]
         ELSE [procs[sid] EXCEPT !.stderr = Tail(@)]

CanRead(sid, stream) ==
    Pipe(procs[sid], stream) # <<>> \/ procs[sid].state # "running"

\* a loop that ends as soon as the process has exited, whatever is left in
\* the pipe
LoopExitOnPoll(sid, stream) ==
    \/ poll(procs[sid])
    \/ ~listeners[sid].running

\* a loop that ends only when the flag is cleared, the process has exited
\* and the stream is closed, all three
LoopExitWhenAll(sid, stream) ==
    /\ poll(procs[sid]) /\ closed(sid, stream)
    /\ ~listeners[sid].running

\* a loop that pays no attention to the running flag
LoopExitIgnoringFlag(sid, stream) ==
    poll(procs[sid]) /\ closed(sid, stream)

\* `while self.running` together with the `break` of the loop body: what
\* ends the loop once a read has returned
LoopExit(sid, stream) ==
    \/ poll(procs[sid]) /\ closed(sid, stream)
    \/ ~listeners[sid].running

\* NetcatListener._read_stdout
read_stdout(sid) ==
    /\ sid \in 1..Len(listeners)
    /\ pc \notin {"return", "exited"}
    /\ threads[sid].stdout = "readline"
    /\ CanRead(sid, "stdout")
    /\ LET output == procs[sid].stdout IN
       /\ listeners' = IF output # <<>>
                       THEN [listeners EXCEPT
                               ![sid].stdout_queue = Append(@, Head(output))]
                       ELSE listeners
       /\ hist' = IF output # <<>> THEN [hist EXCEPT ![sid].fresh = TRUE]
                  ELSE hist
    /\ procs' = [procs EXCEPT ![sid] = AfterRead(sid, "stdout")]
    /\ threads' = [threads EXCEPT ![sid].stdout =
                     IF LoopExit(sid, "stdout") THEN "done" ELSE "readline"]
    /\ UNCHANGED <<connections, selected_port, pc, frame, response, report,
                   exc, cause>>

\* NetcatListener._read_stderr
read_stderr(sid) ==
    /\ sid \in 1..Len(listeners)
    /\ pc \notin {"return", "exited"}
    /\ threads[sid].stderr = "readline"
    /\ CanRead(sid, "stderr")
    /\ LET error == procs[sid].stderr IN
       listeners' = IF error # <<>>
                    THEN [listeners EXCEPT
                            ![sid].stderr_queue = Append(@, Head(error))]
                    ELSE listeners
    /\ procs' = [procs EXCEPT ![sid] = AfterRead(sid, "stderr")]
    /\ threads' = [threads EXCEPT ![sid].stderr =
                     IF LoopExit(sid, "stderr") THEN "done" ELSE "readline"]
    /\ UNCHANGED <<connections, selected_port, pc, frame, response, report,
                   exc, cause, hist>>

\* ------------------------------------------------------- the nc process
TotalOut == SeqSum([i \in 1..Len(procs) |-> procs[i].nout])

TotalErr == SeqSum([i \in 1..Len(procs) |-> procs[i].nerr])

\* the nc process prints what its peer sent: one more line on its stdout
ProcWriteStdout(sid, blank) ==
    /\ pc \notin {"return", "exited"}
    /\ procs[sid].state = "running"
    /\ TotalOut + TotalErr < MaxLines
    /\ procs' = [procs EXCEPT
                   ![sid].nout = @ + 1,
                   ![sid].stdout = Append(@, [sid |-> sid,
                                              n |-> procs[sid].nout + 1,
                                              blank |-> blank])]
    /\ UNCHANGED <<connections, selected_port, listeners, threads, pc, frame,
                   response, report, exc, cause, hist>>

\* the nc process prints a diagnostic: one more line on its stderr
ProcWriteStderr(sid) ==
    /\ pc \notin {"return", "exited"}
    /\ procs[sid].state = "running"
    /\ TotalOut + TotalErr < MaxLines
    /\ procs' = [procs EXCEPT
                   ![sid].nerr = @ + 1,
                   ![sid].stderr = Append(@, [sid |-> sid,
                                              n |-> procs[sid].nerr + 1,
                                              blank |-> FALSE])]
    /\ UNCHANGED <<connections, selected_port, listeners, threads, pc, frame,
                   response, report, exc, cause, hist>>

\* the nc process exits on its own (its peer disconnected, or the bind failed)
ProcExit(sid) ==
    /\ pc \notin {"return", "exited"}
    /\ procs[sid].state = "running"
    /\ procs' = [procs EXCEPT ![sid].state = "exited"]
    /\ UNCHANGED <<connections, selected_port, listeners, threads, pc, frame,
                   response, report, exc, cause, hist>>

Background ==
    \E sid \in 1..Len(listeners) :
        \/ read_stdout(sid)
        \/ read_stderr(sid)
        \/ \E blank \in BOOLEAN : ProcWriteStdout(sid, blank)
        \/ ProcWriteStderr(sid)
        \/ ProcExit(sid)

\* ------------------------------------------- calls on ConnectionManager
Commands == {"id"}

Init ==
    /\ connections = <<>>
    /\ selected_port = None
    /\ listeners = <<>>
    /\ procs = <<>>
    /\ threads = <<>>
    /\ frame = NoFrame
    /\ response = <<>>
    /\ report = NoReport
    /\ exc = "none"
    /\ cause = "none"
    /\ hist = <<>>

\* manager = ConnectionManager(), used directly by a caller
InitMgr == Init /\ pc = "idle"

CallAdd(port) ==
    /\ pc = "idle"
    /\ add_connection(port)
    /\ exc' = "none"
    /\ pc' = "return"
    /\ frame' = [NoFrame EXCEPT !.call = <<"add_connection", port>>,
                                 !.ret = "idle"]
    /\ UNCHANGED <<response, cause>>

CallRemove(port) ==
    /\ pc = "idle"
    /\ remove_connection(port)
    /\ exc' = "none"
    /\ pc' = "return"
    /\ frame' = [NoFrame EXCEPT !.call = <<"remove_connection", port>>,
                                 !.ret = "idle"]
    /\ UNCHANGED <<response, cause>>

CallSelect(port) ==
    /\ pc = "idle"
    /\ select_connection(port)
    /\ exc' = "none"
    /\ pc' = "return"
    /\ frame' = [NoFrame EXCEPT !.call = <<"select_connection", port>>,
                                 !.ret = "idle"]
    /\ UNCHANGED <<response, cause>>

CallSendCommand ==
    /\ pc = "idle"
    /\ \E command \in Commands : send_command(command, "idle", "idle")
    /\ UNCHANGED cause

CallStopAll ==
    /\ pc = "idle"
    /\ stop_all
    /\ exc' = IF stop_all_raises THEN "RuntimeError" ELSE "none"
    /\ pc' = "return"
    /\ frame' = [NoFrame EXCEPT !.call = <<"stop_all", None>>,
                                 !.ret = "idle"]
    /\ UNCHANGED <<response, cause>>

\* manager.connections[port].receive_data() called on its own
CallReceive(port) ==
    /\ pc = "idle"
    /\ HasKey(connections, port)
    /\ frame' = [call |-> <<"receive_data", port>>,
                 self |-> Lookup(connections, port), output |-> <<>>,
                 ret |-> "idle", written |-> <<>>]
    /\ pc' = "drain"
    /\ UNCHANGED <<connections, selected_port, listeners, procs, threads,
                   response, report, exc, cause, hist>>

\* the call is over: the caller has its result and goes on
Return ==
    /\ pc = "return"
    /\ pc' = frame.ret
    /\ frame' = NoFrame
    /\ response' = <<>>
    /\ report' = NoReport
    /\ exc' = IF frame.ret = "finally" THEN exc ELSE "none"
    /\ UNCHANGED <<connections, selected_port, listeners, procs, threads,
                   cause, hist>>

NextMgr ==
    \/ \E port \in Ports : CallAdd(port)
    \/ \E port \in Ports : CallRemove(port)
    \/ \E port \in Ports : CallSelect(port)
    \/ \E port \in Ports : CallReceive(port)
    \/ CallSendCommand
    \/ CallStopAll
    \/ Sleep
    \/ receive_data_get
    \/ receive_data_return
    \/ Return
    \/ Background

SpecMgr == InitMgr /\ [][NextMgr]_vars

\* ------------------------------ receive_data with test and get() apart
\* receive_data whose loop runs without the test of empty()
receive_data_untested ==
    /\ pc = "drain"
    /\ pc' = "get"
    /\ UNCHANGED <<connections, selected_port, listeners, procs, threads,
                   frame, response, report, exc, cause, hist>>

\* NetcatListener.receive_data: `while not self.stdout_queue.empty()` finds
\* the queue not empty and enters the loop body
receive_data_test ==
    /\ pc = "drain"
    /\ ~empty(listeners[frame.self].stdout_queue)
    /\ pc' = "get"
    /\ UNCHANGED <<connections, selected_port, listeners, procs, threads,
                   frame, response, report, exc, cause, hist>>

\* NetcatListener.receive_data: output += self.stdout_queue.get(); get()
\* blocks while the queue holds nothing
receive_data_take ==
    /\ pc = "get"
    /\ listeners[frame.self].stdout_queue # <<>>
    /\ frame' = [frame EXCEPT
                   !.output = Append(@, Head(listeners[frame.self].stdout_queue))]
    /\ listeners' = [listeners EXCEPT ![frame.self].stdout_queue = Tail(@)]
    /\ hist' = [hist EXCEPT ![frame.self].got =
                  Head(listeners[frame.self].stdout_queue).n]
    /\ pc' = "drain"
    /\ UNCHANGED <<connections, selected_port, procs, threads, response,
                   report, exc, cause>>

\* the calls on the manager, the capture threads running between the test
\* of empty() and the get() that follows it
NextGet ==
    \/ \E port \in Ports : CallAdd(port)
    \/ \E port \in Ports : CallRemove(port)
    \/ \E port \in Ports : CallSelect(port)
    \/ \E port \in Ports : CallReceive(port)
    \/ CallSendCommand
    \/ CallStopAll
    \/ Sleep
    \/ receive_data_test
    \/ receive_data_take
    \/ receive_data_return
    \/ Return
    \/ Background

SpecGet == InitMgr /\ [][NextGet]_vars

\* ---------------------------------------------- calls on NetcatListener
\* listener = NetcatListener(port): constructed, not started
CallNew(port) ==
    /\ pc = "idle"
    /\ Len(listeners) < MaxListeners
    /\ listeners' = Append(listeners, NewListener(port))
    /\ procs' = Append(procs, NoProc)
    /\ threads' = Append(threads, [stdout |-> "none", stderr |-> "none"])
    /\ hist' = Append(hist, [got |-> 0, nret |-> 0, fresh |-> FALSE])
    /\ report' = NoReport
    /\ exc' = "none"
    /\ pc' = "return"
    /\ frame' = [NoFrame EXCEPT !.call = <<"__init__", port>>, !.ret = "idle"]
    /\ UNCHANGED <<connections, selected_port, response, cause>>

\* listener.start() on a listener that has no process yet
CallStart(sid) ==
    /\ pc = "idle"
    /\ sid \in 1..Len(listeners)
    /\ listeners[sid].process = "None"
    /\ \E outcome \in SpawnOutcomes :
          /\ listeners' = [listeners EXCEPT ![sid] = start(@, outcome)]
          /\ procs' = [procs EXCEPT ![sid] = Popen(outcome)]
          /\ threads' = [threads EXCEPT ![sid] = StartThreads(outcome)]
          /\ report' = StartReport(listeners[sid].port, outcome)
    /\ exc' = "none"
    /\ pc' = "return"
    /\ frame' = [NoFrame EXCEPT !.call = <<"start", sid>>, !.ret = "idle"]
    /\ UNCHANGED <<connections, selected_port, response, cause, hist>>

\* listener.stop()
CallStop(sid) ==
    /\ pc = "idle"
    /\ sid \in 1..Len(listeners)
    /\ listeners' = [listeners EXCEPT ![sid] = stop(@)]
    /\ procs' = [procs EXCEPT ![sid] = StopProc(listeners[sid], @)]
    /\ report' = StopReport(listeners[sid])
    /\ exc' = "none"
    /\ pc' = "return"
    /\ frame' = [NoFrame EXCEPT !.call = <<"stop", sid>>, !.ret = "idle"]
    /\ UNCHANGED <<connections, selected_port, threads, response, cause, hist>>

\* listener.send_data(data)
CallSendData(sid) ==
    /\ pc = "idle"
    /\ sid \in 1..Len(listeners)
    /\ \E data \in Commands :
          IF send_data_raises(sid)
          THEN /\ exc' = "BrokenPipeError"
               /\ frame' = [NoFrame EXCEPT !.call = <<"send_data", sid>>,
                                            !.ret = "idle"]
          ELSE /\ exc' = "none"
               /\ frame' = [NoFrame EXCEPT !.call = <<"send_data", sid>>,
                                            !.ret = "idle",
                                            !.written = send_data(sid, data)]
    /\ pc' = "return"
    /\ UNCHANGED <<connections, selected_port, listeners, procs, threads,
                   response, report, cause, hist>>

\* listener.receive_data()
CallReceiveData(sid) ==
    /\ pc = "idle"
    /\ sid \in 1..Len(listeners)
    /\ frame' = [call |-> <<"receive_data", sid>>, self |-> sid,
                 output |-> <<>>, ret |-> "idle", written |-> <<>>]
    /\ pc' = "drain"
    /\ UNCHANGED <<connections, selected_port, listeners, procs, threads,
                   response, report, exc, cause, hist>>

NextListener ==
    \/ \E port \in Ports : CallNew(port)
    \/ \E sid \in 1..MaxListeners : CallStart(sid)
    \/ \E sid \in 1..MaxListeners : CallStop(sid)
    \/ \E sid \in 1..MaxListeners : CallSendData(sid)
    \/ \E sid \in 1..MaxListeners : CallReceiveData(sid)
    \/ receive_data_get
    \/ receive_data_return
    \/ Return
    \/ Background

\* a caller that holds NetcatListener objects and calls their methods itself
SpecListener == InitMgr /\ [][NextListener]_vars

\* the caller that works on one port only, adding and removing it again
OnePort == MaxPort

NextOnePort ==
    \/ CallAdd(OnePort)
    \/ CallRemove(OnePort)
    \/ CallSelect(OnePort)
    \/ CallReceive(OnePort)
    \/ CallSendCommand
    \/ CallStopAll
    \/ Sleep
    \/ receive_data_get
    \/ receive_data_return
    \/ Return
    \/ Background

\* the scheduler starves no capture thread that can run, and a call that has
\* finished returns
FairSpecOnePort ==
    /\ InitMgr
    /\ [][NextOnePort]_vars
    /\ WF_vars(Return)
    /\ \A sid \in 1..MaxListeners : SF_vars(read_stdout(sid))

\* as FairSpecOnePort, no stderr capture thread starved either
FairSpecThreads ==
    /\ InitMgr
    /\ [][NextOnePort]_vars
    /\ WF_vars(Return)
    /\ \A sid \in 1..MaxListeners :
          SF_vars(read_stdout(sid)) /\ SF_vars(read_stderr(sid))

\* --------------------------------------------- the __main__ control loop
\* if manager.selected_port:
Truthy(port) == port # None /\ port # 0

InitMain == Init /\ pc = "loop"

\* top of while True: the output of the selected connection is drained
LoopTop ==
    /\ pc = "loop"
    /\ IF Truthy(selected_port)
       THEN IF HasKey(connections, selected_port)
            THEN /\ frame' = [call |-> <<"receive_data", selected_port>>,
                              self |-> Lookup(connections, selected_port),
                              output |-> <<>>, ret |-> "input",
                              written |-> <<>>]
                 /\ pc' = "drain"
                 /\ UNCHANGED <<exc, cause>>
            ELSE /\ exc' = "KeyError"
                 /\ cause' = "KeyError"
                 /\ pc' = "return"
                 /\ frame' = [NoFrame EXCEPT
                                !.call = <<"receive_data", selected_port>>,
                                !.ret = "finally"]
       ELSE /\ pc' = "input"
            /\ UNCHANGED <<frame, exc, cause>>
    /\ UNCHANGED <<connections, selected_port, listeners, procs, threads,
                   response, report, hist>>

CmdAdd(port) ==
    /\ pc = "input"
    /\ add_connection(port)
    /\ pc' = "return"
    /\ frame' = [NoFrame EXCEPT !.call = <<"add_connection", port>>,
                                 !.ret = "loop"]
    /\ UNCHANGED <<response, exc, cause>>

CmdRemove(port) ==
    /\ pc = "input"
    /\ remove_connection(port)
    /\ pc' = "return"
    /\ frame' = [NoFrame EXCEPT !.call = <<"remove_connection", port>>,
                                 !.ret = "loop"]
    /\ UNCHANGED <<response, exc, cause>>

CmdList ==
    /\ pc = "input"
    /\ report' = IF list_connections # <<>>
                 THEN <<"Active connections", Len(list_connections)>>
                 ELSE <<"No active connections", 0>>
    /\ pc' = "return"
    /\ frame' = [NoFrame EXCEPT !.call = <<"list_connections", None>>,
                                 !.ret = "loop"]
    /\ UNCHANGED <<connections, selected_port, listeners, procs, threads,
                   response, exc, cause, hist>>

CmdSelect(port) ==
    /\ pc = "input"
    /\ select_connection(port)
    /\ pc' = "return"
    /\ frame' = [NoFrame EXCEPT !.call = <<"select_connection", port>>,
                                 !.ret = "loop"]
    /\ UNCHANGED <<response, exc, cause>>

CmdSend ==
    /\ pc = "input"
    /\ IF selected_port # None
       THEN /\ \E command \in Commands : send_command(command, "loop", "finally")
            /\ cause' = IF exc' = "none" THEN cause ELSE exc'
       ELSE /\ report' = <<"No connection selected. Use select", None>>
            /\ pc' = "return"
            /\ frame' = [NoFrame EXCEPT !.call = <<"send", None>>,
                                         !.ret = "loop"]
            /\ UNCHANGED <<connections, selected_port, listeners, procs,
                           threads, response, exc, cause, hist>>

CmdStop ==
    /\ pc = "input"
    /\ stop_all
    /\ exc' = IF stop_all_raises THEN "RuntimeError" ELSE "none"
    /\ cause' = "stop"
    /\ pc' = "return"
    /\ frame' = [NoFrame EXCEPT !.call = <<"stop_all", None>>,
                                 !.ret = "finally"]
    /\ UNCHANGED response

CmdHelp ==
    /\ pc = "input"
    /\ report' = <<"Available commands", 0>>
    /\ pc' = "return"
    /\ frame' = [NoFrame EXCEPT !.call = <<"print_help", None>>,
                                 !.ret = "loop"]
    /\ UNCHANGED <<connections, selected_port, listeners, procs, threads,
                   response, exc, cause, hist>>

\* except KeyboardInterrupt: the operator interrupts the loop
Interrupt ==
    /\ pc \in {"loop", "input", "sleep", "drain"}
    /\ report' = <<"Interrupt received", 0>>
    /\ cause' = "KeyboardInterrupt"
    /\ pc' = "return"
    /\ frame' = [NoFrame EXCEPT !.call = <<"KeyboardInterrupt", None>>,
                                 !.ret = "finally"]
    /\ UNCHANGED <<connections, selected_port, listeners, procs, threads,
                   response, exc, hist>>

\* finally: manager.stop_all(), then the interpreter exits and takes the
\* daemon threads with it
Finally ==
    /\ pc = "finally"
    /\ stop_all
    /\ exc' = IF stop_all_raises THEN "RuntimeError" ELSE exc
    /\ pc' = "exited"
    /\ frame' = [NoFrame EXCEPT !.call = <<"stop_all", None>>]
    /\ UNCHANGED <<response, cause>>

Next ==
    \/ LoopTop
    \/ \E port \in Ports : CmdAdd(port)
    \/ \E port \in Ports : CmdRemove(port)
    \/ CmdList
    \/ \E port \in Ports : CmdSelect(port)
    \/ CmdSend
    \/ CmdStop
    \/ CmdHelp
    \/ Interrupt
    \/ Finally
    \/ Sleep
    \/ receive_data_get
    \/ receive_data_return
    \/ Return
    \/ Background

Spec == InitMain /\ [][Next]_vars

\* ============================================================== claims
\* a call of the named operation starts in this step
Enter(name, port) == frame.call = NoCall /\ frame'.call = <<name, port>>

Registry == <<connections, selected_port, listeners, procs, threads>>

Spawned == {sid \in 1..Len(procs) : procs[sid].state # "none"}

Running == {sid \in 1..Len(procs) : procs[sid].state = "running"}

SpawnFailures == {"Netcat (nc) is not installed", "Error starting netcat"}

\* C1: selected_port is None or a key of connections, in every state reached
\* by calls of add, remove, select, send_command and stop_all (so select(p)
\* followed by remove(p) leaves selected_port unset).
C1_SelectedIsKey ==
    selected_port = None \/ HasKey(connections, selected_port)

\* C2: one call of stop_all() returns normally with connections empty,
\* selected_port unset and every spawned process terminated and awaited.
C2_StopAllStopsAll ==
    [][Enter("stop_all", None) =>
          /\ exc' = "none"
          /\ connections' = <<>>
          /\ selected_port' = None
          /\ \A sid \in Spawned : procs'[sid].state = "waited"]_vars

\* C3: when the control loop ends by `stop` or by KeyboardInterrupt, no
\* process spawned by add is still running once the program has exited.
C3_NoProcessLeftAtExit ==
    (pc = "exited" /\ cause \in {"stop", "KeyboardInterrupt"}) => Running = {}

\* C4: add(port) for a port not yet keyed whose spawn fails leaves the
\* registry unchanged: the port is not added, selected_port is unchanged and
\* no capture thread is started.
C4_FailedSpawnAddsNothing ==
    [][\A port \in Ports :
          (Enter("add_connection", port) /\ ~HasKey(connections, port)
              /\ report'[1] \in SpawnFailures) =>
             /\ connections' = connections
             /\ selected_port' = selected_port
             /\ threads'[Len(threads')] = [stdout |-> "none", stderr |-> "none"]
      ]_vars

\* C5: the control loop is left only by `stop` or by KeyboardInterrupt: no
\* failure of an operator command ends it.
C5_LoopEndsOnlyOnStopOrInterrupt ==
    cause \in {"none", "stop", "KeyboardInterrupt"}

\* C6: after add(p) the list of connections holds p exactly once; add(p) for
\* a port already keyed reports a duplicate and changes nothing (no second
\* process, same listener object and queues, same selection), so no port is
\* ever keyed twice.
C6_OneSessionPerPort ==
    /\ [](\A i, j \in 1..Len(connections) :
             connections[i].port = connections[j].port => i = j)
    /\ [][\A port \in Ports :
             Enter("add_connection", port) =>
                /\ Cardinality({i \in 1..Len(connections') :
                                   connections'[i].port = port}) = 1
                /\ HasKey(connections, port) =>
                      /\ report' = <<"Connection already exists", port>>
                      /\ UNCHANGED Registry
         ]_vars

C6_Witness ==
    /\ pc = "return"
    /\ frame.call[1] = "add_connection"
    /\ report = <<"Connection already exists", frame.call[2]>>
    /\ Lookup(connections, frame.call[2]) \in Running

\* C7: remove(p) and select(p) for a port p that is no key of connections
\* report the unknown port and leave the registry as it was: the sessions,
\* selected_port, every process and every queue.
C7_UnknownPortChangesNothing ==
    [][\A port \in Ports :
          ~HasKey(connections, port) =>
             /\ Enter("remove_connection", port) =>
                   /\ report' = <<"No connection to remove", port>>
                   /\ UNCHANGED Registry
             /\ Enter("select_connection", port) =>
                   /\ report' = <<"No connection on port", port>>
                   /\ UNCHANGED Registry
      ]_vars

C7_Witness ==
    /\ pc = "return"
    /\ frame.call[1] = "remove_connection"
    /\ report = <<"No connection to remove", frame.call[2]>>
    /\ selected_port # None
    /\ HasKey(connections, selected_port)

\* C8: send_command with nothing selected returns None and reports "No
\* connection selected": nothing is written to a process, there is no sleep
\* and no drain, and no queue loses a line.
C8_SendWithoutSelection ==
    [][(Enter("send_command", None) /\ selected_port = None) =>
          /\ response' = NoneResponse
          /\ report' = <<"No connection selected", None>>
          /\ exc' = "none"
          /\ frame'.written = <<>>
          /\ pc' = "return"
          /\ UNCHANGED Registry
      ]_vars

C8_Witness ==
    /\ pc = "return"
    /\ frame.call = <<"send_command", None>>
    /\ response = NoneResponse
    /\ selected_port = None
    /\ \E sid \in Running :
          /\ listeners[sid].stdout_queue # <<>>
          /\ HasKey(connections, listeners[sid].port)

\* receive_data returns in this step
Returns == pc = "drain" /\ pc' = "return"

Range(s) == {s[i] : i \in 1..Len(s)}

\* lines the stdout capture thread of listener sid has enqueued so far
Enqueued(sid) == procs[sid].nout - Len(procs[sid].stdout)

\* r is s without the blank lines at its two ends
TrimmedOf(r, s) ==
    \E a \in 1..(Len(s) + 1), b \in 0..Len(s) :
        /\ r = SubSeq(s, a, b)
        /\ \A i \in 1..Len(s) : (i < a \/ i > b) => s[i].blank
        /\ r # <<>> => ~r[1].blank /\ ~r[Len(r)].blank

NoLineTwice ==
    [][(pc = "drain" /\ frame'.output # frame.output) =>
          frame'.output[Len(frame'.output)].n > hist[frame.self].got]_vars

Registered(sid) ==
    \E i \in 1..Len(connections) : connections[i].sid = sid

\* line n of the stdout of the process of listener sid is in its pipe
InPipe(sid, n) ==
    /\ sid \in 1..Len(procs)
    /\ \E i \in 1..Len(procs[sid].stdout) : procs[sid].stdout[i].n = n

\* line n is on the stdout queue of listener sid, or has been taken from it
Captured(sid, n) ==
    /\ sid \in 1..Len(listeners)
    /\ \/ \E i \in 1..Len(listeners[sid].stdout_queue) :
             listeners[sid].stdout_queue[i].n = n
       \/ hist[sid].got >= n

LateLineIsCaptured ==
    \A sid \in 1..MaxListeners, n \in 1..MaxLines :
        (InPipe(sid, n) /\ Registered(sid))
            ~> (Captured(sid, n) \/ ~Registered(sid))

TakenInOrder ==
    [][(pc = "drain" /\ frame'.output # frame.output) =>
          /\ frame'.output[Len(frame'.output)].n = hist[frame.self].got + 1
          /\ frame'.output[Len(frame'.output)].sid = frame.self]_vars

C12_GetNeverBlocks ==
    /\ [](pc = "get" => listeners[frame.self].stdout_queue # <<>>)
    /\ [](pc \in {"drain", "get"} =>
             ENABLED (receive_data_test \/ receive_data_take
                        \/ receive_data_return))
    /\ [][(Returns /\ frame.output = <<>>) => response' = <<>>]_vars

\* receive_data is about to get() its second line, the queue holding more
\* than the test of empty() needed
C12_Witness ==
    /\ pc = "get"
    /\ frame.output # <<>>
    /\ Len(listeners[frame.self].stdout_queue) >= 1
    /\ threads[frame.self].stdout = "readline"

\* listener sid was started: Popen succeeded and self.process is set
Started(sid) == listeners[sid].process # "None"

\* C13: remove(port) on a started session clears running, terminates the
\* process and has waited for its exit when it returns, the entry deleted; so
\* whenever the entry of a started session goes from connections, in whatever
\* call, its process has exited and been waited for and running is false.
C13_StopAwaitsExit ==
    /\ [][\A port \in Ports :
             (Enter("remove_connection", port) /\ HasKey(connections, port)
                 /\ Started(Lookup(connections, port))) =>
                LET sid == Lookup(connections, port) IN
                /\ ~listeners'[sid].running
                /\ procs'[sid].state = "waited"
                /\ report' = <<"Netcat listener stopped", port>>
                /\ ~HasKey(connections', port)]_vars
    /\ [][\A sid \in 1..Len(listeners) :
             (Registered(sid) /\ ~Registered(sid)' /\ Started(sid)) =>
                /\ ~listeners'[sid].running
                /\ procs'[sid].state = "waited"]_vars

\* remove() has returned after stopping a session whose process was running
\* with output still unread in its pipe
C13_Witness ==
    /\ pc = "return"
    /\ frame.call[1] = "remove_connection"
    /\ report = <<"Netcat listener stopped", frame.call[2]>>
    /\ \E sid \in 1..Len(listeners) :
          /\ listeners[sid].port = frame.call[2]
          /\ ~Registered(sid)
          /\ ~listeners[sid].running
          /\ procs[sid].state = "waited"
          /\ procs[sid].stdout # <<>>

\* stop() on listener sid, never started or stopped before, changes nothing
\* of the session, signals no process, raises nothing and prints message
IdleStop(sid, message) ==
    /\ report' = <<message, listeners[sid].port>>
    /\ exc' = "none"
    /\ ~send_signal(listeners[sid], procs[sid])
    /\ listeners'[sid] = listeners[sid]
    /\ procs'[sid] = procs[sid]
    /\ threads'[sid] = threads[sid]

\* C14 as stated: stop() on a listener that was never started, or that has
\* been stopped already, reports that the listener is not running, raises
\* nothing, sends no termination signal and changes no session state.
C14_StopWhenNotRunning ==
    [][\A sid \in 1..Len(listeners) :
          (Enter("stop", sid) /\ (~Started(sid) \/ ~listeners[sid].running))
             => IdleStop(sid, "Netcat listener is not running")]_vars

\* C14 amended: as C14 for a listener that was never started; on a listener
\* stopped before, stop() raises nothing, sends no signal and changes no
\* session state either, but it reports "stopped" again.
C14_StopWhenNotRunningReported ==
    [][\A sid \in 1..Len(listeners) :
          Enter("stop", sid) =>
             /\ ~Started(sid) =>
                    IdleStop(sid, "Netcat listener is not running")
             /\ (Started(sid) /\ ~listeners[sid].running) =>
                    IdleStop(sid, "Netcat listener stopped")]_vars

\* a second stop() has returned on a listener that was started and stopped
C14_Witness ==
    /\ pc = "return"
    /\ frame.call[1] = "stop"
    /\ Started(frame.call[2])
    /\ procs[frame.call[2]].state = "waited"
    /\ \E sid \in 1..Len(listeners) :
          ~Started(sid) /\ listeners[sid].running

\* C15: send_data(data) writes data and a line terminator to the stdin of the
\* listener's process while that process is running; on a listener never
\* started, whose spawn failed, whose process has exited or which has been
\* stopped, no write is attempted (so nothing is written and nothing raised).
C15_WriteOnlyWhileRunning ==
    [][\A sid \in 1..Len(listeners) :
          Enter("send_data", sid) =>
             IF procs[sid].state = "running"
             THEN /\ Len(frame'.written) = 1
                  /\ frame'.written[1].sid = sid
                  /\ exc' = "none"
             ELSE /\ frame'.written = <<>>
                  /\ exc' = "none"]_vars

\* send_command is in progress
InSendCommand == frame.call = <<"send_command", None>>

\* no line leaves a stderr queue, nor the stdout queue of a listener other
\* than sid
NoOtherLineRemoved(sid) ==
    \A other \in 1..Len(listeners) :
        /\ Len(listeners'[other].stderr_queue)
               >= Len(listeners[other].stderr_queue)
        /\ other # sid =>
               Len(listeners'[other].stdout_queue)
                  >= Len(listeners[other].stdout_queue)

\* C16: with selected_port a key of connections, send_command(text) writes
\* text once to the stdin of the selected listener's process and to no other,
\* then sleeps, then drains the stdout queue of the selected listener and
\* returns what the drain returns; no line leaves another queue, and
\* connections and selected_port stay as they were.
C16_SendCommandFrame ==
    /\ [][(Enter("send_command", None) /\ HasKey(connections, selected_port))
             => /\ Len(frame'.written) = 1
                /\ frame'.written[1].sid = Lookup(connections, selected_port)
                /\ frame'.self = Lookup(connections, selected_port)
                /\ exc' = "none"
                /\ pc' = "sleep"]_vars
    /\ [][(InSendCommand /\ pc = "sleep" /\ pc' # pc) =>
             pc' = "drain" /\ frame'.output = <<>>]_vars
    /\ [][(InSendCommand /\ Returns) => response' = strip(frame.output)]_vars
    /\ [][(InSendCommand \/ InSendCommand') =>
             /\ NoOtherLineRemoved(frame'.self)
             /\ UNCHANGED <<connections, selected_port>>]_vars

Streams == {"stdout", "stderr"}

QueueOf(l, stream) ==
    IF stream = "stdout" THEN l.stdout_queue ELSE l.stderr_queue

ThreadOf(t, stream) == IF stream = "stdout" THEN t.stdout ELSE t.stderr

\* the capture thread of stream leaves its loop in this step
Leaves(sid, stream) ==
    /\ ThreadOf(threads[sid], stream) = "readline"
    /\ ThreadOf(threads'[sid], stream) = "done"

\* a read of the capture thread returns a line in this step
Took(sid, stream) ==
    Len(Pipe(procs'[sid], stream)) < Len(Pipe(procs[sid], stream))

\* a read of the capture thread can return: a line, or end of file
ReadCanReturn(sid, stream) ==
    Pipe(procs[sid], stream) # <<>> \/ poll(procs[sid])

\* the capture threads as C17 has them, leaving when Exit(sid, stream) holds:
\* a line read is enqueued in the step that reads it; a thread leaves its
\* loop only when a read returns, and then exactly when Exit holds; a thread
\* that has left enqueues nothing more
CaptureLoop(Exit(_, _)) ==
    \A sid \in 1..Len(listeners), stream \in Streams :
        /\ Took(sid, stream) =>
               /\ QueueOf(listeners'[sid], stream) =
                     Append(QueueOf(listeners[sid], stream),
                            Head(Pipe(procs[sid], stream)))
               /\ Leaves(sid, stream) <=> Exit(sid, stream)
        /\ Leaves(sid, stream) =>
               ReadCanReturn(sid, stream) /\ Exit(sid, stream)
        /\ ThreadOf(threads[sid], stream) # "readline" =>
               /\ ThreadOf(threads'[sid], stream)
                     = ThreadOf(threads[sid], stream)
               /\ Len(QueueOf(listeners'[sid], stream))
                     <= Len(QueueOf(listeners[sid], stream))

StopAndExitedAndClosed(sid, stream) ==
    ~listeners[sid].running /\ poll(procs[sid]) /\ closed(sid, stream)

StopOrExitedAndClosed(sid, stream) ==
    ~listeners[sid].running \/ (poll(procs[sid]) /\ closed(sid, stream))

\* C17 as stated: each capture thread repeats read, enqueue, test, and leaves
\* its loop, after a read has returned, exactly when stop has been signalled
\* and the process has exited and the stream is closed.
C17_LoopLeftOnStopAndExitAndClosed ==
    [][CaptureLoop(StopAndExitedAndClosed)]_vars

\* C17 amended: as C17, but the thread leaves its loop, after a read has
\* returned, exactly when stop has been signalled, or the process has exited
\* and the stream is closed.
C17_LoopLeftOnStopOrExitAndClosed ==
    [][CaptureLoop(StopOrExitedAndClosed)]_vars

\* the stdout thread of a stopped listener has left its loop after a last
\* line, the stderr thread is still in its read
C17_Witness ==
    \E sid \in 1..Len(listeners) :
        /\ ~listeners[sid].running
        /\ threads[sid].stdout = "done"
        /\ threads[sid].stderr = "readline"
        /\ listeners[sid].stdout_queue # <<>>
        /\ procs[sid].stdout # <<>>

\* listener sid was started and stop() has cleared its running flag
Stopped(sid) ==
    /\ sid \in 1..Len(listeners)
    /\ Started(sid)
    /\ ~listeners[sid].running

ThreadsDone(sid) ==
    /\ sid \in 1..Len(threads)
    /\ threads[sid] = [stdout |-> "done", stderr |-> "done"]

\* C18: once stop() has cleared running on a started listener, both capture
\* threads end (no thread being starved), each with the read that was
\* pending: a line enqueued after the flag is cleared is the thread's last.
C18_ThreadsEndAfterStop ==
    /\ \A sid \in 1..MaxListeners : Stopped(sid) ~> ThreadsDone(sid)
    /\ [][\A sid \in 1..Len(listeners), stream \in Streams :
             (~listeners[sid].running
                 /\ QueueOf(listeners'[sid], stream)
                       # QueueOf(listeners[sid], stream)
                 /\ ThreadOf(threads[sid], stream) = "readline") =>
                ThreadOf(threads'[sid], stream) = "done"]_vars
    /\ [][\A sid \in 1..Len(listeners), stream \in Streams :
             ThreadOf(threads[sid], stream) = "done" =>
                /\ ThreadOf(threads'[sid], stream) = "done"
                /\ Len(QueueOf(listeners'[sid], stream))
                      <= Len(QueueOf(listeners[sid], stream))]_vars

\* both threads of a stopped listener have ended, each having enqueued a
\* line, with a line left unread in the pipe
C18_Witness ==
    \E sid \in 1..Len(listeners) :
        /\ Started(sid)
        /\ ~listeners[sid].running
        /\ threads[sid] = [stdout |-> "done", stderr |-> "done"]
        /\ listeners[sid].stderr_queue # <<>>
        /\ procs[sid].state = "waited"

\* C19: every process that was spawned and has not been terminated and
\* waited for belongs to a listener that is still the value of its port in
\* connections, in every state reached by calls of add, remove, select,
\* send_command and stop_all.
C19_NoOrphanedProcess ==
    \A sid \in 1..Len(procs) :
        procs[sid].state \in {"running", "exited"} =>
            /\ HasKey(connections, listeners[sid].port)
            /\ Lookup(connections, listeners[sid].port) = sid

\* stop_all() has raised after stopping the first of two sessions: its
\* process has been waited for, the other is running and still keyed
C19_Witness ==
    /\ pc = "return"
    /\ frame.call = <<"stop_all", None>>
    /\ exc = "RuntimeError"
    /\ \E s1, s2 \in 1..Len(procs) :
          /\ procs[s1].state = "waited" /\ ~Registered(s1)
          /\ procs[s2].state = "running" /\ Registered(s2)

\* listeners constructed earlier for the port of listener sid
Earlier(sid) ==
    {old \in 1..(sid - 1) : listeners[old].port = listeners[sid].port}

\* C20: add(p) for a port that is no key (never added, or removed before)
\* keys p to a listener object constructed by this call, with empty stdout
\* and stderr queues and running set; every line a queue holds and every line
\* receive_data() returns was written by the process of the listener it is
\* called on, never by an earlier process on the same port, whatever the
\* capture threads of removed listeners still do.
C20_NoReuseAcrossRemove ==
    /\ [][\A port \in Ports :
             (Enter("add_connection", port) /\ ~HasKey(connections, port)) =>
                LET new == Lookup(connections', port) IN
                /\ new = Len(listeners) + 1
                /\ listeners'[new].stdout_queue = <<>>
                /\ listeners'[new].stderr_queue = <<>>
                /\ listeners'[new].running]_vars
    /\ [](\A sid \in 1..Len(listeners) :
             /\ \A i \in 1..Len(listeners[sid].stdout_queue) :
                    listeners[sid].stdout_queue[i].sid = sid
             /\ \A i \in 1..Len(listeners[sid].stderr_queue) :
                    listeners[sid].stderr_queue[i].sid = sid)
    /\ [][Returns =>
             /\ Registered(frame.self)
             /\ \A i \in 1..Len(response') :
                    response'[i].sid \notin Earlier(frame.self)]_vars

\* receive_data() on the listener added after a remove of the same port has
\* returned a line, while the stdout thread of the removed listener is still
\* in its loop with a line of the old process to enqueue
C20_Witness ==
    /\ pc = "return"
    /\ frame.self # 0
    /\ response # <<>>
    /\ \E old \in Earlier(frame.self) :
          /\ ~Registered(old)
          /\ threads[old].stdout = "readline"
          /\ procs[old].stdout # <<>>

====
